---------------------------- MODULE Spec2Model ----------------------------
(***************************************************************************)
(* Model of ethers-signers' Client (crates/ethers-signers/src/client.rs):  *)
(* send_transaction, fill_transaction, call_contract and address.          *)
(*                                                                         *)
(* Every call of send_transaction / call_contract is one process with its  *)
(* own locals (tx, block, signed_tx); the client (provider reference and   *)
(* optional signer) is shared by the calls.  Each `.await` on the provider *)
(* is a suspension point: one action issues the request, another receives  *)
(* the provider's response, which is any value or any provider error.      *)
(* The signer and the provider are collaborators outside this file: their  *)
(* answers are nondeterministic choices over what their types allow.       *)
(***************************************************************************)
EXTENDS Naturals, Sequences, FiniteSets

VARIABLES
    client,     \* Client { provider, signer }            (client.rs 11-14)
    pc,         \* pc[c]: position of call c in the code
    tx,         \* tx[c]: the `mut tx: TransactionRequest` of call c
    block,      \* block[c]: the `block: Option<BlockNumber>` of call c
    ret,        \* ret[c]: what fill_transaction returned to line 42
    signed_tx,  \* signed_tx[c]: the `signed_tx` local of line 45
    result,     \* result[c]: what send_transaction returned to its caller
    orig,       \* orig[c]: the intent as the caller handed it over (history)
    via,        \* via[c]: the call_contract arguments, if that was the entry
    log,        \* log[c]: the operations call c invoked on provider and signer
    answers,    \* answers[c]: what provider and signer answered, in order
    got_address \* got_address[c]: what address() returned to call c's caller

vars ==
    <<client, pc, tx, block, ret, signed_tx, result, orig, via, log, answers,
      got_address>>

---------------------------------------------------------------------------
(* Option<T>: None is the empty set, Some(v) the singleton.                *)

None == {}

Some(v) == {v}

is_none(o) == o = {}

is_some(o) == o # {}

unwrap(o) == CHOOSE v \in o : TRUE

Option(S) == {None} \cup {Some(v) : v \in S}

(* Result<T, E>                                                            *)
Ok(v) == [tag |-> "Ok", val |-> v]

Err(e) == [tag |-> "Err", val |-> e]

is_ok(r) == r.tag = "Ok"

is_err(r) == r.tag = "Err"

---------------------------------------------------------------------------
(* Bounds of the model.                                                    *)

\* U256 quantities (gas price, gas, nonce, value) range over 1..MaxValue
MaxValue == 2

\* call_contract is given at most MaxArgs ABI tokens
MaxArgs == 1

Values == 1..MaxValue

\* Address::default(), the signer's address, another account, a contract
ZeroAddress == "0x0"

SignerAddress == "0xS"

OtherAddress == "0xA"

ContractAddress == "0xC"

\* S: Signer is any implementation; its address() is any Address
Signers == {[address |-> SignerAddress], [address |-> ZeroAddress]}

Providers == {"provider"}

BlockRefs == Option({"latest"})

ProviderErrors == {"E1", "E2"}

Hashes == {"h1", "h2"}

Calls == {"c1", "c2"}

\* the calls that run under Spec: one call on the client
Sequential == {"c1"}

\* TransactionRequest (built field by field at client.rs 101-111)
Intents ==
    [to : Option({ContractAddress}),
     data : Option({<<1>>}),
     from : Option({SignerAddress, OtherAddress}),
     gas : Option(Values),
     gas_price : Option(Values),
     nonce : Option(Values),
     value : Option({1})]

EmptyIntent ==
    [to |-> None, data |-> None, from |-> None, gas |-> None,
     gas_price |-> None, nonce |-> None, value |-> None]

\* Overrides: the fields call_contract reads at client.rs 106-110
OverrideSets ==
    [from : Option({SignerAddress, OtherAddress}),
     gas : Option(Values),
     gas_price : Option(Values),
     nonce : Option(Values),
     value : Option({1})]

\* Overrides::default(): every field unset (client.rs 100)
DefaultOverrides ==
    [from |-> None, gas |-> None, gas_price |-> None, nonce |-> None,
     value |-> None]

Signatures == {"transfer(address,uint256)", "f()"}

\* the ABI tokens of the model are unsigned integers below 256
TokenValues == {100}

ArgLists == UNION {[1..n -> TokenValues] : n \in 0..MaxArgs}

---------------------------------------------------------------------------
(* The collaborators' answers.                                             *)

\* a provider query answers with a quantity or fails with a provider error
QueryResults == {Ok(v) : v \in Values} \cup {Err(e) : e \in ProviderErrors}

\* provider.send_transaction and send_raw_transaction answer with a hash
SendResults == {Ok(h) : h \in Hashes} \cup {Err(e) : e \in ProviderErrors}

\* a SignedTransaction: the signed intent and its precomputed hash
SignedTransaction(t, h) == [tx |-> t, hash |-> h]

\* Signer::sign_transaction(tx): a signed transaction, or a signing error
SignResults(t) ==
    {Ok(SignedTransaction(t, h)) : h \in Hashes} \cup {Err("SigningError")}

\* one entry of answers[c]: the operation and the answer it got
Answered(op, r) == [op |-> op, res |-> r]

\* one entry of log[c]: the operation and the arguments it was given
Invoked(op, t, a, b, raw) ==
    [op |-> op, tx |-> t, addr |-> a, block |-> b, raw |-> raw]

---------------------------------------------------------------------------
(* Pure parts of the code.                                                 *)

\* mutant of address: the default address is returned, signer or not
address_default(cl) == ZeroAddress

\* Client::address (client.rs 116-121)
address(cl) ==
    IF is_some(cl.signer) THEN unwrap(cl.signer).address ELSE ZeroAddress

\* mutants of the tests of fill_transaction: the field is queried anyway
gas_price_always_queried(t) == TRUE

gas_always_estimated(t) == TRUE

nonce_always_queried(t) == TRUE

\* the tests of fill_transaction (client.rs 60, 65, 71)
gas_price_is_none(t) == is_none(t.gas_price)

gas_is_none(t) == is_none(t.gas)

nonce_is_none(t) == is_none(t.nonce)

\* utils::id(signature): the first four bytes of the signature's Keccak-256
id(signature) ==
    IF signature = "transfer(address,uint256)"
    THEN <<169, 5, 156, 187>>
    ELSE <<38, 18, 31, 240>>

\* one 32-byte big-endian ABI word
encode_word(n) == [i \in 1..32 |-> IF i = 32 THEN n ELSE 0]

RECURSIVE encode(_)
\* ethabi::encode(args): the tokens' words, in order
encode(args) ==
    IF args = << >> THEN << >>
    ELSE encode_word(Head(args)) \o encode(Tail(args))

\* mutant of call_data: the encoded arguments come before the selector
call_data_arguments_first(signature, args) == encode(args) \o id(signature)

\* client.rs 98: [&utils::id(signature)[..], &ethabi::encode(args)].concat()
call_data(signature, args) == id(signature) \o encode(args)

\* mutant of build_request: the gas price override is not forwarded
build_request_without_gas_price(to, data, overrides) ==
    LET o == IF is_some(overrides) THEN unwrap(overrides) ELSE DefaultOverrides
    IN  [to |-> Some(to), data |-> Some(data), from |-> o.from, gas |-> o.gas,
         gas_price |-> None, nonce |-> o.nonce, value |-> o.value]

\* mutant of build_request: the gas override is not forwarded
build_request_without_gas(to, data, overrides) ==
    LET o == IF is_some(overrides) THEN unwrap(overrides) ELSE DefaultOverrides
    IN  [to |-> Some(to), data |-> Some(data), from |-> o.from, gas |-> None,
         gas_price |-> o.gas_price, nonce |-> o.nonce, value |-> o.value]

\* client.rs 100-111: the TransactionRequest call_contract builds
build_request(to, data, overrides) ==
    LET o == IF is_some(overrides) THEN unwrap(overrides) ELSE DefaultOverrides
    IN  [to |-> Some(to), data |-> Some(data), from |-> o.from, gas |-> o.gas,
         gas_price |-> o.gas_price, nonce |-> o.nonce, value |-> o.value]

\* mutant of set_from: the estimate is asked without fixing the sender
set_from_skipped(t, cl) == t

\* client.rs 66: tx.from = Some(self.address())
set_from(t, cl) == [t EXCEPT !.from = Some(address(cl))]

\* mutant of fill_failed: the error of fill_transaction is dropped
fill_failed_never(r) == FALSE

\* client.rs 42: the `?` on fill_transaction's result
fill_failed(r) == is_err(r)

\* mutant of returned_hash: the hash of the broadcast's answer is returned
returned_hash_of_broadcast(signed, sent) == sent

\* client.rs 50: Ok(signed_tx.hash); `sent` is send_raw_transaction's answer
returned_hash(signed, sent) == signed.hash

---------------------------------------------------------------------------
Init ==
    /\ client \in [provider : Providers, signer : Option(Signers)]
    /\ pc = [c \in Calls |-> "idle"]
    /\ tx = [c \in Calls |-> EmptyIntent]
    /\ block = [c \in Calls |-> None]
    /\ ret = [c \in Calls |-> None]
    /\ signed_tx = [c \in Calls |-> None]
    /\ result = [c \in Calls |-> None]
    /\ orig = [c \in Calls |-> None]
    /\ via = [c \in Calls |-> None]
    /\ log = [c \in Calls |-> << >>]
    /\ answers = [c \in Calls |-> << >>]
    /\ got_address = [c \in Calls |-> None]

\* the caller starts send_transaction(tx, block)       (client.rs 28-32)
send_transaction_of(c, t, b) ==
    /\ pc[c] = "idle"
    /\ tx' = [tx EXCEPT ![c] = t]
    /\ block' = [block EXCEPT ![c] = b]
    /\ orig' = [orig EXCEPT ![c] = Some(t)]
    /\ pc' = [pc EXCEPT ![c] = "send_transaction"]
    /\ UNCHANGED <<client, ret, signed_tx, result, via, log, answers,
                   got_address>>

\* send_transaction with any intent and any block reference
send_transaction(c) ==
    /\ pc[c] = "idle"
    /\ \E t \in Intents, b \in BlockRefs : send_transaction_of(c, t, b)

\* the caller starts call_contract(to, signature, args, overrides, block),
\* which hands its intent to send_transaction             (client.rs 89-114)
call_contract(c) ==
    /\ pc[c] = "idle"
    /\ \E to \in {ContractAddress}, signature \in Signatures, args \in ArgLists,
          overrides \in Option(OverrideSets), b \in BlockRefs :
          LET t == build_request(to, call_data(signature, args), overrides)
          IN  /\ tx' = [tx EXCEPT ![c] = t]
              /\ block' = [block EXCEPT ![c] = b]
              /\ orig' = [orig EXCEPT ![c] = Some(t)]
              /\ via' = [via EXCEPT ![c] =
                    Some([to |-> to, signature |-> signature, args |-> args,
                          overrides |-> overrides, block |-> b])]
    /\ pc' = [pc EXCEPT ![c] = "send_transaction"]
    /\ UNCHANGED <<client, ret, signed_tx, result, log, answers, got_address>>

\* the caller asks client.address()                     (client.rs 116-121)
address_call(c) ==
    /\ pc[c] = "idle"
    /\ got_address' = [got_address EXCEPT ![c] = Some(address(client))]
    /\ pc' = [pc EXCEPT ![c] = "address_returned"]
    /\ UNCHANGED <<client, tx, block, ret, signed_tx, result, orig, via, log,
                   answers>>

\* mutant of delegate_to_node: the node is asked whether or not a signer is set
delegate_to_node_always(c) ==
    /\ pc[c] = "send_transaction"
    /\ log' = [log EXCEPT ![c] =
          Append(@, Invoked("provider.send_transaction", Some(tx[c]), None, None, None))]
    /\ pc' = [pc EXCEPT ![c] = "await_send_transaction"]
    /\ UNCHANGED <<client, tx, block, ret, signed_tx, result, orig, via, answers, got_address>>

\* mutant of delegate_to_node: the sender is filled in before the node is asked
delegate_to_node_filled(c) ==
    /\ pc[c] = "send_transaction"
    /\ is_none(client.signer)
    /\ tx' = [tx EXCEPT ![c] = set_from(tx[c], client)]
    /\ log' = [log EXCEPT ![c] =
          Append(@, Invoked("provider.send_transaction", Some(tx'[c]), None, None, None))]
    /\ pc' = [pc EXCEPT ![c] = "await_send_transaction"]
    /\ UNCHANGED <<client, block, ret, signed_tx, result, orig, via, answers,
                   got_address>>

\* client.rs 35-39, no signer: return self.provider.send_transaction(tx).await
delegate_to_node(c) ==
    /\ pc[c] = "send_transaction"
    /\ is_none(client.signer)
    /\ log' = [log EXCEPT ![c] =
          Append(@, Invoked("provider.send_transaction", Some(tx[c]), None, None, None))]
    /\ pc' = [pc EXCEPT ![c] = "await_send_transaction"]
    /\ UNCHANGED <<client, tx, block, ret, signed_tx, result, orig, via, answers, got_address>>

\* client.rs 38: the node's answer is returned as it is
send_transaction_response(c) ==
    /\ pc[c] = "await_send_transaction"
    /\ \E r \in SendResults :
          /\ answers' = [answers EXCEPT ![c] = Append(@, Answered("provider.send_transaction", r))]
          /\ result' = [result EXCEPT ![c] = Some(r)]
          /\ pc' = [pc EXCEPT ![c] = IF is_ok(r) THEN "Done" ELSE "Failed"]
    /\ UNCHANGED <<client, tx, block, ret, signed_tx, orig, via, log, got_address>>

\* mutant of begin_fill: the intent is filled whether or not a signer is set
begin_fill_always(c) ==
    /\ pc[c] = "send_transaction"
    /\ pc' = [pc EXCEPT ![c] = "fill_gas_price"]
    /\ UNCHANGED <<client, tx, block, ret, signed_tx, result, orig, via, log, answers, got_address>>

\* client.rs 35-36 and 42, a signer is configured: enter fill_transaction
begin_fill(c) ==
    /\ pc[c] = "send_transaction"
    /\ is_some(client.signer)
    /\ pc' = [pc EXCEPT ![c] = "fill_gas_price"]
    /\ UNCHANGED <<client, tx, block, ret, signed_tx, result, orig, via, log, answers, got_address>>

\* client.rs 60-61: query the gas price when it is unset
fill_gas_price(c) ==
    /\ pc[c] = "fill_gas_price"
    /\ IF gas_price_is_none(tx[c])
       THEN /\ log' = [log EXCEPT ![c] =
                  Append(@, Invoked("get_gas_price", None, None, None, None))]
            /\ pc' = [pc EXCEPT ![c] = "await_get_gas_price"]
       ELSE /\ pc' = [pc EXCEPT ![c] = "fill_gas"]
            /\ log' = log
    /\ UNCHANGED <<client, tx, block, ret, signed_tx, result, orig, via, answers, got_address>>

\* mutant of get_gas_price_response: the answered price is not stored
get_gas_price_response_dropped(c) ==
    /\ pc[c] = "await_get_gas_price"
    /\ \E r \in QueryResults :
          /\ answers' = [answers EXCEPT ![c] = Append(@, Answered("get_gas_price", r))]
          /\ IF is_ok(r)
             THEN /\ pc' = [pc EXCEPT ![c] = "fill_gas"]
                  /\ ret' = ret
             ELSE /\ ret' = [ret EXCEPT ![c] = Some(r)]
                  /\ pc' = [pc EXCEPT ![c] = "fill_return"]
    /\ UNCHANGED <<client, tx, block, signed_tx, result, orig, via, log,
                   got_address>>

\* client.rs 61: Some(get_gas_price().await?)
get_gas_price_response(c) ==
    /\ pc[c] = "await_get_gas_price"
    /\ \E r \in QueryResults :
          /\ answers' = [answers EXCEPT ![c] = Append(@, Answered("get_gas_price", r))]
          /\ IF is_ok(r)
             THEN /\ tx' = [tx EXCEPT ![c].gas_price = Some(r.val)]
                  /\ pc' = [pc EXCEPT ![c] = "fill_gas"]
                  /\ ret' = ret
             ELSE /\ ret' = [ret EXCEPT ![c] = Some(r)]
                  /\ pc' = [pc EXCEPT ![c] = "fill_return"]
                  /\ tx' = tx
    /\ UNCHANGED <<client, block, signed_tx, result, orig, via, log, got_address>>

\* mutant of fill_gas: the sender is fixed on every intent in flight, as if
\* the calls worked on one intent kept in the client
fill_gas_shared(c) ==
    /\ pc[c] = "fill_gas"
    /\ IF gas_is_none(tx[c])
       THEN /\ tx' = [d \in Calls |-> set_from(tx[d], client)]
            /\ log' = [log EXCEPT ![c] =
                  Append(@, Invoked("estimate_gas", Some(tx'[c]), None,
                                    Some(block[c]), None))]
            /\ pc' = [pc EXCEPT ![c] = "await_estimate_gas"]
       ELSE /\ pc' = [pc EXCEPT ![c] = "fill_nonce"]
            /\ UNCHANGED <<tx, log>>
    /\ UNCHANGED <<client, block, ret, signed_tx, result, orig, via, answers,
                   got_address>>

\* client.rs 65-67: set from, then ask for the gas estimate of the intent
fill_gas(c) ==
    /\ pc[c] = "fill_gas"
    /\ IF gas_is_none(tx[c])
       THEN /\ tx' = [tx EXCEPT ![c] = set_from(tx[c], client)]
            /\ log' = [log EXCEPT ![c] =
                  Append(@, Invoked("estimate_gas", Some(tx'[c]), None,
                                    Some(block[c]), None))]
            /\ pc' = [pc EXCEPT ![c] = "await_estimate_gas"]
       ELSE /\ pc' = [pc EXCEPT ![c] = "fill_nonce"]
            /\ UNCHANGED <<tx, log>>
    /\ UNCHANGED <<client, block, ret, signed_tx, result, orig, via, answers, got_address>>

\* mutant of estimate_gas_response: a failed estimate restores the intent
estimate_gas_response_rollback(c) ==
    /\ pc[c] = "await_estimate_gas"
    /\ \E r \in QueryResults :
          /\ answers' = [answers EXCEPT ![c] = Append(@, Answered("estimate_gas", r))]
          /\ IF is_ok(r)
             THEN /\ tx' = [tx EXCEPT ![c].gas = Some(r.val)]
                  /\ pc' = [pc EXCEPT ![c] = "fill_nonce"]
                  /\ ret' = ret
             ELSE /\ ret' = [ret EXCEPT ![c] = Some(r)]
                  /\ pc' = [pc EXCEPT ![c] = "fill_return"]
                  /\ tx' = [tx EXCEPT ![c] = unwrap(orig[c])]
    /\ UNCHANGED <<client, block, signed_tx, result, orig, via, log,
                   got_address>>

\* client.rs 67: Some(estimate_gas(&tx, block).await?)
estimate_gas_response(c) ==
    /\ pc[c] = "await_estimate_gas"
    /\ \E r \in QueryResults :
          /\ answers' = [answers EXCEPT ![c] = Append(@, Answered("estimate_gas", r))]
          /\ IF is_ok(r)
             THEN /\ tx' = [tx EXCEPT ![c].gas = Some(r.val)]
                  /\ pc' = [pc EXCEPT ![c] = "fill_nonce"]
                  /\ ret' = ret
             ELSE /\ ret' = [ret EXCEPT ![c] = Some(r)]
                  /\ pc' = [pc EXCEPT ![c] = "fill_return"]
                  /\ tx' = tx
    /\ UNCHANGED <<client, block, signed_tx, result, orig, via, log, got_address>>

\* client.rs 71-79: query the transaction count when the nonce is unset
fill_nonce(c) ==
    /\ pc[c] = "fill_nonce"
    /\ IF nonce_is_none(tx[c])
       THEN /\ log' = [log EXCEPT ![c] =
                  Append(@, Invoked("get_transaction_count", None,
                                    Some(address(client)), Some(block[c]), None))]
            /\ pc' = [pc EXCEPT ![c] = "await_get_transaction_count"]
            /\ ret' = ret
       ELSE /\ ret' = [ret EXCEPT ![c] = Some(Ok("unit"))]
            /\ pc' = [pc EXCEPT ![c] = "fill_return"]
            /\ log' = log
    /\ UNCHANGED <<client, tx, block, signed_tx, result, orig, via, answers, got_address>>

\* client.rs 72-79: Some(get_transaction_count(..).await?), then Ok(())
get_transaction_count_response(c) ==
    /\ pc[c] = "await_get_transaction_count"
    /\ \E r \in QueryResults :
          /\ answers' = [answers EXCEPT ![c] = Append(@, Answered("get_transaction_count", r))]
          /\ IF is_ok(r)
             THEN /\ tx' = [tx EXCEPT ![c].nonce = Some(r.val)]
                  /\ ret' = [ret EXCEPT ![c] = Some(Ok("unit"))]
             ELSE /\ ret' = [ret EXCEPT ![c] = Some(r)]
                  /\ tx' = tx
    /\ pc' = [pc EXCEPT ![c] = "fill_return"]
    /\ UNCHANGED <<client, block, signed_tx, result, orig, via, log, got_address>>

\* client.rs 42: self.fill_transaction(&mut tx, block).await?
fill_return(c) ==
    /\ pc[c] = "fill_return"
    /\ IF fill_failed(unwrap(ret[c]))
       THEN /\ result' = [result EXCEPT ![c] = Some(Err(unwrap(ret[c]).val))]
            /\ pc' = [pc EXCEPT ![c] = "Failed"]
       ELSE /\ pc' = [pc EXCEPT ![c] = "sign"]
            /\ result' = result
    /\ UNCHANGED <<client, tx, block, ret, signed_tx, orig, via, log, answers, got_address>>

\* client.rs 45: signer.sign_transaction(tx).unwrap() panics on an error
sign_transaction(c) ==
    /\ pc[c] = "sign"
    /\ log' = [log EXCEPT ![c] =
          Append(@, Invoked("sign_transaction", Some(tx[c]), None, None, None))]
    /\ \E r \in SignResults(tx[c]) :
          /\ answers' = [answers EXCEPT ![c] = Append(@, Answered("sign_transaction", r))]
          /\ IF is_ok(r)
             THEN /\ signed_tx' = [signed_tx EXCEPT ![c] = Some(r.val)]
                  /\ pc' = [pc EXCEPT ![c] = "broadcast"]
             ELSE /\ pc' = [pc EXCEPT ![c] = "Panicked"]
                  /\ signed_tx' = signed_tx
    /\ UNCHANGED <<client, tx, block, ret, result, orig, via, got_address>>

\* client.rs 48: self.provider.send_raw_transaction(&signed_tx)
send_raw_transaction(c) ==
    /\ pc[c] = "broadcast"
    /\ log' = [log EXCEPT ![c] =
          Append(@, Invoked("send_raw_transaction", None, None, None, signed_tx[c]))]
    /\ pc' = [pc EXCEPT ![c] = "await_send_raw_transaction"]
    /\ UNCHANGED <<client, tx, block, ret, signed_tx, result, orig, via, answers, got_address>>

\* mutant of send_raw_transaction_response: the broadcast's error is dropped
send_raw_transaction_response_unchecked(c) ==
    /\ pc[c] = "await_send_raw_transaction"
    /\ \E r \in SendResults :
          /\ answers' = [answers EXCEPT ![c] = Append(@, Answered("send_raw_transaction", r))]
          /\ result' = [result EXCEPT ![c] =
                Some(Ok(unwrap(signed_tx[c]).hash))]
          /\ pc' = [pc EXCEPT ![c] = "Done"]
    /\ UNCHANGED <<client, tx, block, ret, signed_tx, orig, via, log,
                   got_address>>

\* client.rs 48-50: `.await?`, then Ok(signed_tx.hash)
send_raw_transaction_response(c) ==
    /\ pc[c] = "await_send_raw_transaction"
    /\ \E r \in SendResults :
          /\ answers' = [answers EXCEPT ![c] = Append(@, Answered("send_raw_transaction", r))]
          /\ IF is_ok(r)
             THEN /\ result' = [result EXCEPT ![c] =
                        Some(Ok(returned_hash(unwrap(signed_tx[c]), r.val)))]
                  /\ pc' = [pc EXCEPT ![c] = "Done"]
             ELSE /\ result' = [result EXCEPT ![c] = Some(r)]
                  /\ pc' = [pc EXCEPT ![c] = "Failed"]
    /\ UNCHANGED <<client, tx, block, ret, signed_tx, orig, via, log, got_address>>

\* the steps of a call inside send_transaction
Run(c) ==
    \/ delegate_to_node(c)
    \/ send_transaction_response(c)
    \/ begin_fill(c)
    \/ fill_gas_price(c)
    \/ get_gas_price_response(c)
    \/ fill_gas(c)
    \/ estimate_gas_response(c)
    \/ fill_nonce(c)
    \/ get_transaction_count_response(c)
    \/ fill_return(c)
    \/ sign_transaction(c)
    \/ send_raw_transaction(c)
    \/ send_raw_transaction_response(c)

Step(c) ==
    \/ send_transaction(c)
    \/ call_contract(c)
    \/ address_call(c)
    \/ Run(c)

Next == \E c \in Sequential : Step(c)

Spec == Init /\ [][Next]_vars

\* the intents of the calls that run side by side: nothing but a recipient;
\* all but gasLimit, with another account as from; all but gasPrice and
\* nonce; everything preset
ConcurrentIntents ==
    {[EmptyIntent EXCEPT !.to = Some(ContractAddress)],
     [EmptyIntent EXCEPT !.to = Some(ContractAddress),
                         !.from = Some(OtherAddress),
                         !.gas_price = Some(1), !.nonce = Some(1)],
     [EmptyIntent EXCEPT !.to = Some(ContractAddress), !.gas = Some(1)],
     [to |-> Some(ContractAddress), data |-> Some(<<1>>),
      from |-> Some(SignerAddress), gas |-> Some(1), gas_price |-> Some(1),
      nonce |-> Some(1), value |-> Some(1)]}

\* a step of call c when several send_transaction calls share the client
ConcurrentStep(c) ==
    \/ /\ pc[c] = "idle"
       /\ \E t \in ConcurrentIntents : send_transaction_of(c, t, None)
    \/ Run(c)

\* any call may take the next step: the calls interleave at every step
NextConcurrent == \E c \in Calls : ConcurrentStep(c)

SpecConcurrent == Init /\ [][NextConcurrent]_vars

---------------------------------------------------------------------------
(* Reading the history of a call.                                          *)

\* the operations call c has invoked so far
Ops(c) == {log[c][i].op : i \in DOMAIN log[c]}

\* how often call c has invoked op
Count(c, op) == Cardinality({i \in DOMAIN log[c] : log[c][i].op = op})

\* the answers call c got from op
AnswersOf(c, op) ==
    {answers[c][i].res : i \in {j \in DOMAIN answers[c] : answers[c][j].op = op}}

FillQueries == {"get_gas_price", "estimate_gas", "get_transaction_count"}

\* the positions of the local-signing path (client.rs 41-50 and 54-80)
LocalPath ==
    {"fill_gas_price", "await_get_gas_price", "fill_gas", "await_estimate_gas",
     "fill_nonce", "await_get_transaction_count", "fill_return", "sign",
     "broadcast", "await_send_raw_transaction", "Panicked"}

\* a filling query of call c has failed
FillQueryFailed(c) ==
    \E op \in FillQueries : \E r \in AnswersOf(c, op) : is_err(r)

---------------------------------------------------------------------------
(* C1: with no signer configured, a send_transaction call never enters     *)
(* fill_transaction, never signs and never broadcasts raw: whatever the    *)
(* intent and the block reference, the only operation it invokes is the    *)
(* node-delegated provider.send_transaction.                               *)
C1_NoSignerOnlyDelegates ==
    \A c \in Calls :
        is_none(client.signer) =>
            /\ Ops(c) \subseteq {"provider.send_transaction"}
            /\ pc[c] \notin LocalPath
            /\ is_none(ret[c]) /\ is_none(signed_tx[c])

\* a call without signer that has finished through the node
C1_Witness ==
    \E c \in Calls :
        /\ is_none(client.signer)
        /\ pc[c] = "Done"
        /\ Count(c, "provider.send_transaction") = 1

(* C2: with a signer configured, a send_transaction call never invokes the *)
(* node-delegated provider.send_transaction, whatever the intent and       *)
(* whatever the provider answers.                                          *)
C2_SignerNeverDelegates ==
    \A c \in Calls :
        is_some(client.signer) =>
            /\ "provider.send_transaction" \notin Ops(c)
            /\ pc[c] # "await_send_transaction"

\* a call with a signer that ended with its raw broadcast accepted
C2_Witness ==
    \E c \in Calls :
        /\ is_some(client.signer)
        /\ pc[c] = "Done"
        /\ Count(c, "send_raw_transaction") = 1

(* C3: when one of the three filling queries fails, the call returns that  *)
(* same provider error, and sign_transaction and send_raw_transaction are  *)
(* never invoked in it: a partially filled intent is never broadcast.      *)
C3_FillErrorPropagates ==
    \A c \in Calls :
        FillQueryFailed(c) =>
            /\ "sign_transaction" \notin Ops(c)
            /\ "send_raw_transaction" \notin Ops(c)
            /\ pc[c] \in {"fill_return", "Failed"}
            /\ pc[c] = "Failed" =>
                  \E op \in FillQueries :
                      /\ answers[c][Len(answers[c])].op = op
                      /\ result[c] = Some(answers[c][Len(answers[c])].res)

\* the gas estimate failed after the gas price was filled; the call returned
C3_Witness ==
    \E c \in Calls :
        /\ pc[c] = "Failed"
        /\ \E r \in AnswersOf(c, "estimate_gas") : is_err(r)
        /\ is_some(tx[c].gas_price) /\ is_none(unwrap(orig[c]).gas_price)

(* C4: when sign_transaction fails on the filled intent, the call ends in  *)
(* Failed with an error result handed to its caller (it does not crash),   *)
(* and no raw broadcast is performed.                                      *)
C4_SignErrorSurfaced ==
    \A c \in Calls :
        (\E r \in AnswersOf(c, "sign_transaction") : is_err(r)) =>
            /\ pc[c] = "Failed"
            /\ is_some(result[c]) /\ is_err(unwrap(result[c]))
            /\ "send_raw_transaction" \notin Ops(c)

(* C5: whenever send_transaction with a signer returns success, the hash   *)
(* it returns is the hash of the SignedTransaction that sign_transaction   *)
(* produced in that call, whatever send_raw_transaction answered.          *)
C5_ReturnsSignedHash ==
    \A c \in Calls :
        (/\ is_some(client.signer)
         /\ is_some(result[c])
         /\ is_ok(unwrap(result[c]))) =>
            /\ pc[c] = "Done"
            /\ \E r \in AnswersOf(c, "sign_transaction") :
                  /\ is_ok(r)
                  /\ unwrap(result[c]).val = r.val.hash
                  /\ Some(r.val) = signed_tx[c]

\* success where the broadcast answered with another hash than the signer's
C5_Witness ==
    \E c \in Calls :
        /\ is_some(client.signer)
        /\ pc[c] = "Done"
        /\ is_ok(unwrap(result[c]))
        /\ \E r \in AnswersOf(c, "send_raw_transaction") :
              is_ok(r) /\ r.val # unwrap(result[c]).val

---------------------------------------------------------------------------
(* Reading the intent of a call before and after fill_transaction.         *)

Fields == {"to", "data", "from", "value", "gas_price", "gas", "nonce"}

\* the fields fill_transaction completes, and the query of each
Fillable == {"gas_price", "gas", "nonce"}

QueryFor(f) ==
    CASE f = "gas_price" -> "get_gas_price"
      [] f = "gas" -> "estimate_gas"
      [] f = "nonce" -> "get_transaction_count"

\* fill_transaction has returned to client.rs 42, with Ok(()) or an error
FillReturned(c) == is_some(ret[c])

\* the remote queries call c has issued
QueriesIssued(c) == {i \in DOMAIN log[c] : log[c][i].op \in FillQueries}

\* the intent was given with exactly the field f of Fillable unset
OnlyMissing(o, f) == {g \in Fillable : is_none(o[g])} = {f}

\* the overrides call_contract works with (client.rs 100)
OverridesOf(v) ==
    IF is_some(v.overrides) THEN unwrap(v.overrides) ELSE DefaultOverrides

(* C6 as claimed: after fill_transaction returns, with Ok or with an       *)
(* error, every field among to, data, from, value, gasPrice, gasLimit and  *)
(* nonce that the caller had set holds the caller's value.                 *)
C6_NoCallerFieldOverwritten ==
    \A c \in Calls :
        FillReturned(c) =>
            \A f \in Fields :
                is_some(unwrap(orig[c])[f]) => tx[c][f] = unwrap(orig[c])[f]

(* C6 as amended: after fill_transaction returns, a caller-supplied to,    *)
(* data, value, gasPrice, gasLimit or nonce holds the caller's value; a    *)
(* caller-supplied from is kept when gasLimit was supplied too or the gas  *)
(* price query failed, and is otherwise (gasLimit unset, the gas estimate  *)
(* reached) replaced by the client's own address.                          *)
C6_CallerFieldsKeptButFrom ==
    \A c \in Calls :
        FillReturned(c) =>
            LET o == unwrap(orig[c])
                gas_price_failed ==
                    \E r \in AnswersOf(c, "get_gas_price") : is_err(r)
            IN
            /\ \A f \in Fields \ {"from"} : is_some(o[f]) => tx[c][f] = o[f]
            /\ is_some(o.from) =>
                  tx[c].from = IF is_none(o.gas) /\ ~gas_price_failed
                               THEN Some(address(client))
                               ELSE o.from

\* fill returned: the caller's gas price survived a filled nonce, and the
\* caller's from, another account's address, was replaced
C6_Witness ==
    \E c \in Calls :
        /\ FillReturned(c)
        /\ unwrap(orig[c]).from = Some(OtherAddress)
        /\ tx[c].from = Some(SignerAddress)
        /\ is_some(unwrap(orig[c]).gas_price)
        /\ tx[c].gas_price = unwrap(orig[c]).gas_price
        /\ is_none(unwrap(orig[c]).nonce) /\ is_some(tx[c].nonce)

(* C7 as claimed: for an intent missing exactly one of gasPrice, gasLimit  *)
(* and nonce, fill_transaction issues exactly one remote query, the one of *)
(* the missing field, and leaves every other field, from included, as it   *)
(* was.                                                                    *)
C7_OneQueryOthersUntouched ==
    \A c \in Calls : \A f \in Fillable :
        (FillReturned(c) /\ OnlyMissing(unwrap(orig[c]), f)) =>
            /\ Cardinality(QueriesIssued(c)) = 1
            /\ Count(c, QueryFor(f)) = 1
            /\ \A g \in Fields \ {f} : tx[c][g] = unwrap(orig[c])[g]

(* C7 as amended: for an intent missing exactly one of gasPrice, gasLimit  *)
(* and nonce, fill_transaction issues exactly one remote query, the one of *)
(* the missing field, and leaves every other field as it was, except that  *)
(* from is set to the client's own address when gasLimit is the missing    *)
(* field.                                                                  *)
C7_OneQueryOthersUntouchedButFrom ==
    \A c \in Calls : \A f \in Fillable :
        (FillReturned(c) /\ OnlyMissing(unwrap(orig[c]), f)) =>
            LET o == unwrap(orig[c]) IN
            /\ Cardinality(QueriesIssued(c)) = 1
            /\ Count(c, QueryFor(f)) = 1
            /\ \A g \in Fields \ {f, "from"} : tx[c][g] = o[g]
            /\ tx[c].from = IF f = "gas" THEN Some(address(client)) ELSE o.from

\* only gasLimit was missing: one estimate_gas, and from was rewritten
C7_Witness ==
    \E c \in Calls :
        /\ FillReturned(c)
        /\ OnlyMissing(unwrap(orig[c]), "gas")
        /\ Count(c, "estimate_gas") = 1
        /\ is_some(tx[c].gas)
        /\ unwrap(orig[c]).from = Some(OtherAddress)
        /\ tx[c].from = Some(SignerAddress)

(* C8: for an intent whose fields are all preset, fill_transaction issues  *)
(* no remote query, returns Ok(()) and leaves the intent as it was given.  *)
C8_AllPresetNoQuery ==
    \A c \in Calls :
        (is_some(orig[c]) /\ \A f \in Fields : is_some(unwrap(orig[c])[f])) =>
            /\ QueriesIssued(c) = {}
            /\ tx[c] = unwrap(orig[c])
            /\ FillReturned(c) => is_ok(unwrap(ret[c]))
            /\ pc[c] \notin {"await_get_gas_price", "await_estimate_gas",
                             "await_get_transaction_count"}

\* a fully preset intent came back from fill_transaction and is to be signed
C8_Witness ==
    \E c \in Calls :
        /\ is_some(orig[c]) /\ \A f \in Fields : is_some(unwrap(orig[c])[f])
        /\ FillReturned(c)
        /\ pc[c] = "sign"

(* C9: with a signer configured, every estimate_gas query is made on an    *)
(* intent whose from is already the signer's address, whether the caller   *)
(* left from unset, gave the signer's address or gave another address.     *)
C9_EstimateSeesSignerFrom ==
    \A c \in Calls : \A i \in DOMAIN log[c] :
        (is_some(client.signer) /\ log[c][i].op = "estimate_gas") =>
            unwrap(log[c][i].tx).from = Some(unwrap(client.signer).address)

\* an estimate is in flight for an intent the caller gave with another
\* account's address as from
C9_Witness ==
    \E c \in Calls :
        /\ is_some(client.signer)
        /\ Count(c, "estimate_gas") = 1
        /\ unwrap(orig[c]).from = Some(OtherAddress)
        /\ pc[c] = "await_estimate_gas"

(* C10 as claimed: when call_contract is given overrides that leave from   *)
(* unset, on a client with a signer, the intent handed to sign_transaction *)
(* has from equal to the signer's address, whatever the overrides say      *)
(* about gas, gasPrice, nonce and value.                                   *)
C10_SignedIntentHasSignerFrom ==
    \A c \in Calls : \A i \in DOMAIN log[c] :
        (/\ is_some(client.signer)
         /\ is_some(via[c])
         /\ is_none(OverridesOf(unwrap(via[c])).from)
         /\ log[c][i].op = "sign_transaction") =>
            unwrap(log[c][i].tx).from = Some(unwrap(client.signer).address)

(* C10 as amended: under the same conditions the intent handed to          *)
(* sign_transaction has from equal to the signer's address when the        *)
(* overrides leave gas unset too, and has from still unset when the        *)
(* overrides set gas, whatever they say about gasPrice, nonce and value.   *)
C10_SignedIntentFromFollowsGas ==
    \A c \in Calls : \A i \in DOMAIN log[c] :
        (/\ is_some(client.signer)
         /\ is_some(via[c])
         /\ is_none(OverridesOf(unwrap(via[c])).from)
         /\ log[c][i].op = "sign_transaction") =>
            unwrap(log[c][i].tx).from =
                IF is_none(OverridesOf(unwrap(via[c])).gas)
                THEN Some(unwrap(client.signer).address)
                ELSE None

\* a contract call without a from override was filled, estimate included,
\* and handed to the signer
C10_Witness ==
    \E c \in Calls :
        /\ is_some(client.signer)
        /\ is_some(via[c])
        /\ is_none(OverridesOf(unwrap(via[c])).from)
        /\ is_none(OverridesOf(unwrap(via[c])).gas)
        /\ is_some(OverridesOf(unwrap(via[c])).gas_price)
        /\ Count(c, "estimate_gas") = 1
        /\ Count(c, "sign_transaction") = 1

---------------------------------------------------------------------------
(* C11 as claimed: address() returns the zero address if and only if no    *)
(* signer is configured; with a signer it returns a non-zero address, the  *)
(* signer's.                                                               *)
C11_ZeroIffNoSigner ==
    \A c \in Calls :
        is_some(got_address[c]) =>
            /\ unwrap(got_address[c]) = ZeroAddress <=> is_none(client.signer)
            /\ is_some(client.signer) =>
                  /\ unwrap(got_address[c]) # ZeroAddress
                  /\ unwrap(got_address[c]) = unwrap(client.signer).address

(* C11 as amended: address() returns the zero address when no signer is    *)
(* configured and the configured signer's own address otherwise; what it   *)
(* returns is the zero address if and only if no signer is configured or   *)
(* the signer's own address is the zero address.                           *)
C11_SignerAddressOrZero ==
    \A c \in Calls :
        is_some(got_address[c]) =>
            /\ is_none(client.signer) => unwrap(got_address[c]) = ZeroAddress
            /\ is_some(client.signer) =>
                  unwrap(got_address[c]) = unwrap(client.signer).address
            /\ unwrap(got_address[c]) = ZeroAddress <=>
                  \/ is_none(client.signer)
                  \/ unwrap(client.signer).address = ZeroAddress

\* address() was asked of a client whose signer has a non-zero address
C11_Witness ==
    \E c \in Calls :
        /\ is_some(client.signer)
        /\ unwrap(client.signer).address # ZeroAddress
        /\ got_address[c] = Some(unwrap(client.signer).address)

---------------------------------------------------------------------------
\* the entries of log[c] that invoke op
Invocations(c, op) == {log[c][i] : i \in {j \in DOMAIN log[c] : log[c][j].op = op}}

\* call c came in through call_contract on a client with a signer, with
\* overrides that set gasPrice and leave nonce unset
GasPriceOverrideOnly(c) ==
    /\ is_some(client.signer)
    /\ is_some(via[c])
    /\ is_some(OverridesOf(unwrap(via[c])).gas_price)
    /\ is_none(OverridesOf(unwrap(via[c])).nonce)

(* C12: for a call_contract call on a client with a signer whose overrides *)
(* set gasPrice and not nonce, get_gas_price is never queried, the         *)
(* transaction count is asked for the signer's address, and the intent     *)
(* that is signed and broadcast carries the override's gas price and the   *)
(* nonce that get_transaction_count answered.                              *)
C12_OverridePriceQueriedNonce ==
    \A c \in Calls :
        GasPriceOverrideOnly(c) =>
            LET o == OverridesOf(unwrap(via[c])) IN
            /\ Count(c, "get_gas_price") = 0
            /\ \A e \in Invocations(c, "get_transaction_count") :
                  e.addr = Some(unwrap(client.signer).address)
            /\ \A e \in Invocations(c, "sign_transaction") :
                  /\ unwrap(e.tx).gas_price = o.gas_price
                  /\ \E r \in AnswersOf(c, "get_transaction_count") :
                        is_ok(r) /\ unwrap(e.tx).nonce = Some(r.val)
            /\ \A e \in Invocations(c, "send_raw_transaction") :
                  /\ unwrap(e.raw).tx.gas_price = o.gas_price
                  /\ \E r \in AnswersOf(c, "get_transaction_count") :
                        is_ok(r) /\ unwrap(e.raw).tx.nonce = Some(r.val)

\* such a call was broadcast and accepted
C12_Witness ==
    \E c \in Calls :
        /\ GasPriceOverrideOnly(c)
        /\ Count(c, "get_transaction_count") = 1
        /\ Count(c, "send_raw_transaction") = 1
        /\ pc[c] = "Done"

(* C13: call_contract builds an intent whose to is the recipient, whose    *)
(* data is the 4-byte selector of the signature followed by the encoding   *)
(* of the arguments and nothing else, and whose from, gas, gasPrice, nonce *)
(* and value are the override fields (all unset without overrides); it     *)
(* hands that intent and its own block reference to send_transaction,      *)
(* whose result is the call's result.                                      *)
C13_CallContractIntent ==
    \A c \in Calls :
        is_some(via[c]) =>
            LET v == unwrap(via[c])
                o == IF is_some(v.overrides) THEN unwrap(v.overrides)
                     ELSE [from |-> None, gas |-> None, gas_price |-> None,
                           nonce |-> None, value |-> None]
                t == unwrap(orig[c])
                d == unwrap(t.data)
            IN
            /\ t.to = Some(v.to)
            /\ is_some(t.data)
            /\ Len(d) = 4 + 32 * Len(v.args)
            /\ SubSeq(d, 1, 4) = id(v.signature)
            /\ SubSeq(d, 5, Len(d)) = encode(v.args)
            /\ \A f \in {"from", "gas", "gas_price", "nonce", "value"} :
                  t[f] = o[f]
            /\ block[c] = v.block
            /\ pc[c] = "send_transaction" => tx[c] = t

\* transfer(address,uint256) with one argument and a value override was
\* handed to send_transaction
C13_Witness ==
    \E c \in Calls :
        /\ is_some(via[c])
        /\ unwrap(via[c]).signature = "transfer(address,uint256)"
        /\ Len(unwrap(via[c]).args) = 1
        /\ is_some(OverridesOf(unwrap(via[c])).value)
        /\ pc[c] = "send_transaction"

(* C14: on the path without signer, the intent given to                    *)
(* provider.send_transaction is field for field the intent the caller gave *)
(* send_transaction, and send_transaction returns exactly what the         *)
(* provider answered, a hash or an error.                                  *)
C14_DelegatedUnmodifiedVerbatim ==
    \A c \in Calls :
        is_none(client.signer) =>
            /\ \A e \in Invocations(c, "provider.send_transaction") :
                  e.tx = orig[c]
            /\ tx[c] = IF is_some(orig[c]) THEN unwrap(orig[c]) ELSE EmptyIntent
            /\ \A r \in AnswersOf(c, "provider.send_transaction") :
                  result[c] = Some(r)
            /\ is_some(result[c]) =>
                  unwrap(result[c]) \in AnswersOf(c, "provider.send_transaction")

\* the node refused an intent that had nothing but a recipient
C14_Witness ==
    \E c \in Calls :
        /\ is_none(client.signer)
        /\ pc[c] = "Failed"
        /\ is_some(unwrap(orig[c]).to) /\ is_none(unwrap(orig[c]).gas)
        /\ is_none(unwrap(orig[c]).from)
        /\ result[c] = Some(Err("E2"))

---------------------------------------------------------------------------
(* C15: when send_raw_transaction fails on the local-signing path,         *)
(* send_transaction returns that provider error as it is, not the signed   *)
(* transaction's hash; it returns success only after the raw broadcast     *)
(* has succeeded.                                                          *)
C15_BroadcastErrorPropagates ==
    \A c \in Calls :
        /\ \A r \in AnswersOf(c, "send_raw_transaction") :
              is_err(r) => pc[c] = "Failed" /\ result[c] = Some(r)
        /\ (/\ is_some(client.signer)
            /\ is_some(result[c])
            /\ is_ok(unwrap(result[c]))) =>
              \E r \in AnswersOf(c, "send_raw_transaction") : is_ok(r)

\* a signed transaction was refused by the provider
C15_Witness ==
    \E c \in Calls :
        /\ is_some(signed_tx[c])
        /\ AnswersOf(c, "send_raw_transaction") = {Err("E2")}
        /\ result[c] = Some(Err("E2"))

\* the places of op in log[c]
Places(c, op) == {i \in DOMAIN log[c] : log[c][i].op = op}

(* C16: on the local-signing path the steps of a call are ordered:         *)
(* sign_transaction is invoked only after fill_transaction returned        *)
(* Ok(()), send_raw_transaction only after sign_transaction succeeded, and *)
(* with the SignedTransaction of that call, and the call is Done only      *)
(* after send_raw_transaction succeeded.                                   *)
C16_LocalPathOrdered ==
    \A c \in Calls :
        is_some(client.signer) =>
            /\ "sign_transaction" \in Ops(c) =>
                  /\ ret[c] = Some(Ok("unit"))
                  /\ \A i \in QueriesIssued(c) :
                        \A j \in Places(c, "sign_transaction") : i < j
                  /\ Len(answers[c]) >= Cardinality(QueriesIssued(c))
            /\ "send_raw_transaction" \in Ops(c) =>
                  /\ \E r \in AnswersOf(c, "sign_transaction") :
                        /\ is_ok(r)
                        /\ \A e \in Invocations(c, "send_raw_transaction") :
                              e.raw = Some(r.val)
                  /\ \A i \in Places(c, "sign_transaction") :
                        \A j \in Places(c, "send_raw_transaction") : i < j
            /\ pc[c] = "Done" =>
                  /\ "send_raw_transaction" \in Ops(c)
                  /\ \E r \in AnswersOf(c, "send_raw_transaction") : is_ok(r)

\* a call went through all of it: three queries, signature, broadcast, Done
C16_Witness ==
    \E c \in Calls :
        /\ is_some(client.signer)
        /\ pc[c] = "Done"
        /\ Cardinality(QueriesIssued(c)) = 3
        /\ Len(log[c]) = 5

\* the field a filling query completes
FieldOf(op) ==
    CASE op = "get_gas_price" -> "gas_price"
      [] op = "estimate_gas" -> "gas"
      [] op = "get_transaction_count" -> "nonce"

(* C18: when a filling query fails, fill_transaction stops at once: that   *)
(* query is the last operation of the call, the field it was for stays     *)
(* unset, and what was filled or assigned before keeps its new value: the  *)
(* answered gas price and gas, and from as assigned before a failed        *)
(* estimate.                                                               *)
C18_FailedFillStopsNoRollback ==
    \A c \in Calls : \A op \in FillQueries :
        (\E r \in AnswersOf(c, op) : is_err(r)) =>
            /\ log[c][Len(log[c])].op = op
            /\ Count(c, op) = 1
            /\ answers[c][Len(answers[c])].op = op
            /\ is_none(tx[c][FieldOf(op)])
            /\ \A q \in FillQueries \ {op} : \A r \in AnswersOf(c, q) :
                  /\ is_ok(r)
                  /\ tx[c][FieldOf(q)] = Some(r.val)
            /\ "estimate_gas" \in Ops(c) => tx[c].from = Some(address(client))
            /\ \A f \in Fields \ {"from"} :
                  is_some(unwrap(orig[c])[f]) => tx[c][f] = unwrap(orig[c])[f]

\* the estimate failed after the gas price was filled and from was replaced
C18_Witness ==
    \E c \in Calls :
        /\ \E r \in AnswersOf(c, "estimate_gas") : is_err(r)
        /\ \E r \in AnswersOf(c, "get_gas_price") : is_ok(r)
        /\ unwrap(orig[c]).from = Some(OtherAddress)
        /\ tx[c].from = Some(SignerAddress)
        /\ is_some(tx[c].gas_price)
        /\ pc[c] = "Failed"

(* C20: whenever sign_transaction is invoked, the intent it is given has   *)
(* gasPrice, gasLimit and nonce set, each to the caller's value when the   *)
(* caller gave one and otherwise to what the corresponding provider query  *)
(* answered in that call.                                                  *)
C20_SignedIntentFilled ==
    \A c \in Calls : \A e \in Invocations(c, "sign_transaction") :
        \A f \in Fillable :
            LET given == unwrap(orig[c])[f]
                signed == unwrap(e.tx)[f]
            IN
            /\ is_some(signed)
            /\ is_some(given) => signed = given /\ Count(c, QueryFor(f)) = 0
            /\ is_none(given) =>
                  /\ Count(c, QueryFor(f)) = 1
                  /\ \E r \in AnswersOf(c, QueryFor(f)) :
                        is_ok(r) /\ signed = Some(r.val)

\* an intent with the caller's nonce and a queried price and gas was signed
C20_Witness ==
    \E c \in Calls :
        /\ Count(c, "sign_transaction") = 1
        /\ is_some(unwrap(orig[c]).nonce)
        /\ is_none(unwrap(orig[c]).gas_price)
        /\ is_none(unwrap(orig[c]).gas)
        /\ tx[c].nonce = unwrap(orig[c]).nonce
        /\ is_some(tx[c].gas_price) /\ is_some(tx[c].gas)

---------------------------------------------------------------------------
\* everything a send_transaction call can invoke
Operations ==
    FillQueries \cup
        {"sign_transaction", "send_raw_transaction", "provider.send_transaction"}

\* call c is inside send_transaction and has not returned
Running(c) == pc[c] \notin {"idle", "address_returned", "Done", "Failed"}

(* C17: with a provider that answers every request, every send_transaction *)
(* call ends in Done or Failed, and invokes each provider operation and    *)
(* sign_transaction at most once.  Every step of a call moves it forward   *)
(* and an awaited answer is always possible, so the call ends in Done or   *)
(* Failed exactly when it is never left running with no step to take.      *)
C17_EndsDoneOrFailedNoRetry ==
    \A c \in Calls :
        /\ Running(c) => ENABLED Step(c)
        /\ \A op \in Operations : Count(c, op) <= 1

---------------------------------------------------------------------------
\* the locals of call d are what they were
LocalsUnchanged(d) ==
    /\ tx'[d] = tx[d]
    /\ result'[d] = result[d]
    /\ block'[d] = block[d]
    /\ ret'[d] = ret[d]
    /\ signed_tx'[d] = signed_tx[d]
    /\ pc'[d] = pc[d]
    /\ log'[d] = log[d]
    /\ answers'[d] = answers[d]

(* C19: in every interleaving of two send_transaction calls on one client, *)
(* a step of one call writes only that call's intent, result and other     *)
(* locals: nothing of the other call changes, and the client's provider    *)
(* reference and signer stay what they were.                               *)
C19_CallsDoNotInterfere ==
    [][\A c \in Calls :
          ConcurrentStep(c) =>
              /\ \A d \in Calls \ {c} : LocalsUnchanged(d)
              /\ client' = client]_vars

\* both calls are under way at once: c2 had its from rewritten and waits
\* for its broadcast, while c1, started before that, still waits for the
\* gas price with its from unset
C19_Witness ==
    /\ is_some(client.signer)
    /\ pc["c1"] = "await_get_gas_price"
    /\ is_none(tx["c1"].from)
    /\ pc["c2"] = "await_send_raw_transaction"
    /\ unwrap(orig["c2"]).from = Some(OtherAddress)
    /\ tx["c2"].from = Some(unwrap(client.signer).address)

=============================================================================
